---- MODULE Spec2Model ----
(***************************************************************************)
(* Model of scripts/doc_generator.py: the page-store lookup                *)
(* (get_confluence_page_id_and_version), the upsert                        *)
(* (create_or_update_confluence_page), the summarizer                      *)
(* (get_ai_documentation), the traversal (process_directory_recursively)   *)
(* and the main block.  Every external request is one step; the answer of  *)
(* the external service is chosen by the environment.                      *)
(***************************************************************************)
EXTENDS Integers, Sequences, FiniteSets, TLC

\* ---------------------------------------------------------------- bounds
MaxCalls == 2     \* upsert calls made by the driver of Spec
MaxExt == 1       \* edits made to the store by other writers
MaxSummaries == 4 \* summarizer calls made by the driver of SpecSummary

\* ------------------------------------------------------ program constants
max_retries == 3
initial_retry_delay == 5

\* Python's None, for a page id, a version and a parent id.  `if page_id:`
\* and `if parent_id:` are false exactly for it.
None == 0

\* ------------------------------------------------------- the code tree
\* A string is the sequence of its characters, a path the sequence of names
\* from the code root.  The script is followed over two trees under
\* CODE_ROOT_PATH:
\*   "plain"                              "spaced"
\*     a/       directory                   a/        directory
\*     a/m.py   Python file with content    a/b.py/   directory, empty
\*     b.py     Python file with content    "a "/     directory
\*     c.py     Python file, white space    "a "/" b.py"  Python file with content
\*     d.txt    not a Python file
Trees == {"plain", "spaced"}

name_a == <<"a">>
name_a_sp == <<"a", " ">>
name_b_py == <<"b", ".", "p", "y">>
name_sp_b_py == <<" ", "b", ".", "p", "y">>
name_c_py == <<"c", ".", "p", "y">>
name_d_txt == <<"d", ".", "t", "x", "t">>
name_m_py == <<"m", ".", "p", "y">>

TreeDirs(k) ==
    IF k = "plain" THEN {<<>>, <<name_a>>}
    ELSE {<<>>, <<name_a>>, <<name_a, name_b_py>>, <<name_a_sp>>}

TreeList(k, d) ==
    IF k = "plain"
    THEN IF d = <<>> THEN {name_d_txt, name_b_py, name_a, name_c_py}
         ELSE IF d = <<name_a>> THEN {name_m_py}
         ELSE {}
    ELSE IF d = <<>> THEN {name_a_sp, name_a}
         ELSE IF d = <<name_a_sp>> THEN {name_sp_b_py}
         ELSE IF d = <<name_a>> THEN {name_b_py}
         ELSE {}

\* Files whose content is white space only.
WhitespaceFiles(k) == IF k = "plain" THEN {<<name_c_py>>} ELSE {}

TreePaths(k) == UNION {{Append(d, n) : n \in TreeList(k, d)} : d \in TreeDirs(k)}

\* ord() of the characters in use.
ord(c) ==
    CASE c = " " -> 32
      [] c = "." -> 46
      [] c = "/" -> 47
      [] c = ":" -> 58
      [] c = "R" -> 82
      [] c = "a" -> 97
      [] c = "b" -> 98
      [] c = "c" -> 99
      [] c = "d" -> 100
      [] c = "m" -> 109
      [] c = "o" -> 111
      [] c = "p" -> 112
      [] c = "t" -> 116
      [] c = "x" -> 120
      [] c = "y" -> 121

\* s < t for two strings, as Python compares them.
RECURSIVE str_less(_, _)
str_less(s, t) ==
    IF Len(t) = 0 THEN FALSE
    ELSE IF Len(s) = 0 THEN TRUE
    ELSE IF Head(s) # Head(t) THEN ord(Head(s)) < ord(Head(t))
    ELSE str_less(Tail(s), Tail(t))

\* Faulty variant: the listing is taken in descending order.
sorted_Descending(S) ==
    CHOOSE q \in [1..Cardinality(S) -> S] :
        /\ \A n \in S : \E i \in DOMAIN q : q[i] = n
        /\ \A i, j \in DOMAIN q : i < j => str_less(q[j], q[i])

\* line 286: sorted(...)
sorted(S) ==
    CHOOSE q \in [1..Cardinality(S) -> S] :
        /\ \A n \in S : \E i \in DOMAIN q : q[i] = n
        /\ \A i, j \in DOMAIN q : i < j => str_less(q[i], q[j])

\* line 317: item_name.endswith(".py")
endswith_py(name) ==
    /\ Len(name) >= 3
    /\ SubSeq(name, Len(name) - 2, Len(name)) = <<".", "p", "y">>

\* ------------------------------------------------------------ page titles
ROOT_DOC_PROJECT_TITLE == <<"R", "o", "o", "t">>

\* The names of a path put together with sep between them.
RECURSIVE join(_, _)
join(p, sep) ==
    IF Len(p) = 0 THEN <<>>
    ELSE IF Len(p) = 1 THEN Head(p)
    ELSE Head(p) \o sep \o join(Tail(p), sep)

\* lines 291-292: os.path.relpath(item_abs_path, code_base_dir_abs_path)
relpath(p) == join(p, <<"/">>)

\* line 297: .replace(os.sep, ' / ')
RECURSIVE replace_sep(_)
replace_sep(str) ==
    IF Len(str) = 0 THEN <<>>
    ELSE IF Head(str) = "/" THEN <<" ", "/", " ">> \o replace_sep(Tail(str))
    ELSE <<Head(str)>> \o replace_sep(Tail(str))

\* line 297
dir_page_title(p) == ROOT_DOC_PROJECT_TITLE \o <<":", " ">> \o replace_sep(relpath(p))

\* line 320
file_page_title(p) == ROOT_DOC_PROJECT_TITLE \o <<":", " ">> \o relpath(p)

Titles ==
    {ROOT_DOC_PROJECT_TITLE}
        \cup UNION {{dir_page_title(p) : p \in TreeDirs(k) \ {<<>>}} : k \in Trees}
        \cup UNION {{file_page_title(p) : p \in TreePaths(k) \ TreeDirs(k)} : k \in Trees}

VARIABLES
    tree,           \* the tree under the code path
    creds,          \* CONFLUENCE_BASE_URL, _USER_EMAIL and _API_TOKEN are all set
    store,          \* title -> sequence of pages [id, version, parent] of the space
    nextId,         \* next id the store hands out
    ext,            \* edits by other writers so far
    upc,            \* position in create_or_update_confluence_page
    title,          \* its argument title
    parent_id,      \* its argument parent_id
    page_id,        \* its local page_id
    current_version,\* its local current_version
    attempt,        \* its loop variable
    retry_delay,    \* its local retry_delay
    action_taken,   \* its local action_taken ("unbound" before the first assignment)
    data,           \* the keys id, version, ancestors of its request body
    uret,           \* its return value
    uexit,          \* the source line it returned or raised at
    ulog,           \* requests and sleeps of the current call, in order
    calls,          \* upsert calls started by the driver
    writes,         \* create/update requests of all calls so far, in order,
                    \* kept while faults is FALSE
    faults,         \* some request was not answered successfully, or the store
                    \* was not empty at the start, or another writer edited it
    client,         \* the OpenAI client was initialized (is not None)
    spc,            \* position in get_ai_documentation
    s_attempt,      \* its loop variable attempt
    s_retry_delay,  \* its local retry_delay
    sret,           \* the text it returned
    sexit,          \* the source line it returned or raised at
    slog,           \* API calls and sleeps of the current call, in order
    config,         \* OPENAI_API_KEY and CONFLUENCE_SPACE_KEY are set
    code_path_ok,   \* the code path is a directory
    mpc,            \* position in the main block and the traversal
    stack,          \* frames of process_directory_recursively, innermost last
    entry,          \* path of the entry the innermost loop is at
    exit_code,      \* the exit status of the process, once it has ended
    tlog            \* what the traversal did, in order

\* line 286: os.listdir
listdir(d) == TreeList(tree, d)

\* line 294: os.path.isdir
isdir(p) == p \in TreeDirs(tree)

\* Faulty variant: no file counts as blank.
blank_Never(p) == FALSE

\* lines 323-326: `not file_content.strip()`
blank(p) == p \in WhitespaceFiles(tree)

storevars == <<store, nextId, ext>>
uvars == <<upc, title, parent_id, page_id, current_version, attempt,
           retry_delay, action_taken, data, uret, uexit, ulog>>
histvars == <<calls, writes, faults>>
svars == <<spc, s_attempt, s_retry_delay, sret, sexit, slog>>
mvars == <<config, code_path_ok, mpc, stack, entry, exit_code, tlog>>
vars == <<creds, tree, client, storevars, uvars, histvars, svars, mvars>>

\* ------------------------------------------------- the external page store
\* The Confluence space is not part of the script.  It is kept as far as the
\* script's requests address it: the pages of a title with their id, version
\* and parent.  Which answer a request gets (2xx, 409, another error status,
\* no answer at all) is the environment's choice in every step.
\* What a GET by title answers with: the matches, in order.
StoreResults(st, t) == st[t]

\* POST: a new page with a fresh id, at version 1.
StoreCreate(st, t, id, par) ==
    [st EXCEPT ![t] = Append(@, [id |-> id, version |-> 1, parent |-> par])]

StoreHas(st, t, id) == \E i \in 1..Len(st[t]) : st[t][i].id = id

\* PUT on /content/{id}: the page takes the version sent, and the parent sent
\* when the body names one.
StoreUpdate(st, t, id, ver, par) ==
    [st EXCEPT ![t] = [i \in 1..Len(@) |->
        IF @[i].id = id
        THEN [id |-> id, version |-> ver,
              parent |-> IF par = None THEN @[i].parent ELSE par]
        ELSE @[i]]]

LookupOutcomes == {"ok", "http_error", "network_error"}

\* -------------------------------------- get_confluence_page_id_and_version
Returned(id, ver) == [kind |-> "return", id |-> id, version |-> ver]
Raised == [kind |-> "raise", id |-> None, version |-> None]

\* The except branch of the lookup: `response` is bound when raise_for_status
\* raised (HTTP error), and unbound when requests.get itself raised.
LookupExcept(outcome) ==
    IF outcome = "http_error" THEN Returned(None, None) ELSE Raised

\* Faulty variant: the lookup never reports a match.
get_confluence_page_id_and_version_NeverFinds(c, outcome, results) ==
    IF ~c \/ outcome = "ok" THEN Returned(None, None) ELSE LookupExcept(outcome)

get_confluence_page_id_and_version(c, outcome, results) ==
    IF ~c THEN Returned(None, None)
    ELSE IF outcome = "ok"
         THEN IF Len(results) > 0
              THEN Returned(results[1].id, results[1].version)
              ELSE Returned(None, None)
         ELSE LookupExcept(outcome)

LookupResp(r) ==
    IF r.kind = "raise" THEN "raise"
    ELSE IF r.id = None THEN "not_found" ELSE "found"

\* ---------------------------------------- create_or_update_confluence_page
Event(op, att, id, ver, par, resp, secs) ==
    [op |-> op, att |-> att, id |-> id, ver |-> ver, par |-> par,
     resp |-> resp, secs |-> secs]

NoData == [id |-> None, version |-> None, ancestors |-> None]

\* creds missing: line 183-186
UNoCreds ==
    /\ upc = "find"
    /\ ~creds
    /\ upc' = "returned"
    /\ uret' = None
    /\ uexit' = 186
    /\ UNCHANGED <<creds, tree, client, svars, mvars, storevars, title, parent_id, page_id, current_version,
                   attempt, retry_delay, action_taken, data, ulog, histvars>>

\* lines 193-213: the first lookup, the request body, the loop's locals
UFind ==
    /\ upc = "find"
    /\ creds
    /\ \E o \in LookupOutcomes :
         LET r == get_confluence_page_id_and_version(creds, o, StoreResults(store, title))
         IN  /\ ulog' = Append(ulog, Event("GET", 0, r.id, r.version, None, LookupResp(r), 0))
             /\ faults' = (faults \/ o # "ok")
             /\ writes' = IF faults' THEN <<>> ELSE writes
             /\ IF r.kind = "raise"
                THEN /\ upc' = "raised"
                     /\ uexit' = 176
                     /\ UNCHANGED <<page_id, current_version, data, attempt, retry_delay>>
                ELSE /\ upc' = "request"
                     /\ page_id' = r.id
                     /\ current_version' = r.version
                     /\ data' = [NoData EXCEPT !.ancestors = parent_id]
                     /\ attempt' = 0
                     /\ retry_delay' = initial_retry_delay
                     /\ UNCHANGED uexit
    /\ UNCHANGED <<creds, tree, client, svars, mvars, storevars, title, parent_id, action_taken, uret, calls>>

\* Faulty variant: the delay stays what it was after a sleep.
Backoff_NoDoubling(log, line) ==
    IF attempt < max_retries - 1
    THEN /\ ulog' = Append(log, Event("SLEEP", attempt, None, None, None, "", retry_delay))
         /\ retry_delay' = retry_delay
         /\ attempt' = attempt + 1
         /\ upc' = "request"
         /\ UNCHANGED <<uret, uexit>>
    ELSE /\ ulog' = log
         /\ upc' = "returned"
         /\ uret' = None
         /\ uexit' = line
         /\ UNCHANGED <<retry_delay, attempt>>

\* lines 254-261 and 265-272: sleep and go round again, or give up on the
\* last attempt
Backoff(log, line) ==
    IF attempt < max_retries - 1
    THEN /\ ulog' = Append(log, Event("SLEEP", attempt, None, None, None, "", retry_delay))
         /\ retry_delay' = retry_delay * 2
         /\ attempt' = attempt + 1
         /\ upc' = "request"
         /\ UNCHANGED <<uret, uexit>>
    ELSE /\ ulog' = log
         /\ upc' = "returned"
         /\ uret' = None
         /\ uexit' = line
         /\ UNCHANGED <<retry_delay, attempt>>

\* Faulty variant: the branch reads the id left in the request body, not the id of the
\* latest lookup.
IsUpdate_BodyId == page_id # None \/ data.id # None

\* line 216: update when the lookup gave an id, else create
IsUpdate == page_id # None

\* Faulty variant: the update carries the looked-up version itself.
RequestData_SameVersion ==
    IF IsUpdate
    THEN [data EXCEPT !.id = page_id, !.version = current_version]
    ELSE data

\* lines 217-218: an update writes the id and the version into the request body
RequestData ==
    IF IsUpdate
    THEN [data EXCEPT !.id = page_id, !.version = current_version + 1]
    ELSE data

RequestOp == IF IsUpdate THEN "PUT" ELSE "POST"

RequestAction == IF IsUpdate THEN "Updating" ELSE "Creating"

WriteEvent(resp) ==
    Event(RequestOp, attempt, RequestData.id, RequestData.version,
          RequestData.ancestors, resp, 0)

\* The request goes out with the body as it now is.  `writes` follows the
\* requests for as long as every answer so far was a success.
Issue(resp) ==
    /\ data' = RequestData
    /\ faults' = (faults \/ resp # "ok")
    /\ writes' = IF faults' THEN <<>>
                 ELSE Append(writes, [op |-> RequestOp, id |-> RequestData.id,
                                      ver |-> RequestData.version])

\* lines 216-236: the request is answered 2xx
URequestOk ==
    /\ upc = "request"
    /\ Issue("ok")
    /\ IF IsUpdate
       THEN /\ StoreHas(store, title, page_id)
            /\ store' = StoreUpdate(store, title, page_id, RequestData.version,
                                    RequestData.ancestors)
            /\ uret' = page_id
            /\ UNCHANGED nextId
       ELSE /\ store' = StoreCreate(store, title, nextId, RequestData.ancestors)
            /\ uret' = nextId
            /\ nextId' = nextId + 1
    /\ action_taken' = RequestAction
    /\ ulog' = Append(ulog, WriteEvent("ok"))
    /\ upc' = "returned"
    /\ uexit' = 236
    /\ UNCHANGED <<creds, tree, client, svars, mvars, ext, title, parent_id, page_id, current_version, attempt,
                   retry_delay, calls>>

\* lines 238-242: the request is answered 409; the handler goes on to re-fetch
URequestConflict ==
    /\ upc = "request"
    /\ Issue("conflict")
    /\ action_taken' = RequestAction
    /\ ulog' = Append(ulog, WriteEvent("conflict"))
    /\ upc' = "refetch"
    /\ UNCHANGED <<creds, tree, client, svars, mvars, storevars, title, parent_id, page_id, current_version,
                   attempt, retry_delay, uret, uexit, calls>>

\* lines 238-241, 253-261: the request is answered with another 4xx/5xx
URequestHttpError ==
    /\ upc = "request"
    /\ Issue("http_error")
    /\ action_taken' = RequestAction
    /\ Backoff(Append(ulog, WriteEvent("http_error")), 261)
    /\ UNCHANGED <<creds, tree, client, svars, mvars, storevars, title, parent_id, page_id, current_version, calls>>

\* The handler of lines 262-272 reads action_taken, which the try block
\* assigns only after the request has returned.
NetworkExcept(taken, log) ==
    IF taken = "unbound"
    THEN /\ upc' = "raised"
         /\ uexit' = 264
         /\ ulog' = log
         /\ UNCHANGED <<attempt, retry_delay, uret>>
    ELSE Backoff(log, 272)

\* lines 262-272: the request itself raises (connection error, timeout)
URequestNetworkError ==
    /\ upc = "request"
    /\ Issue("network_error")
    /\ NetworkExcept(action_taken, Append(ulog, WriteEvent("network_error")))
    /\ UNCHANGED <<creds, tree, client, svars, mvars, storevars, title, parent_id, page_id, current_version,
                   action_taken, calls>>

\* Faulty variant: the immediate retry does not use up an attempt.
RefetchNotFound_SameAttempt(log) ==
    /\ ulog' = log
    /\ upc' = "request"
    /\ UNCHANGED <<attempt, retry_delay, uret, uexit>>

\* lines 247-252 and the loop's end: the re-fetch found no page, so `continue`
\* takes the next attempt without a sleep; after the last attempt the loop
\* runs off its end and line 273 returns
RefetchNotFound(log) ==
    /\ ulog' = log
    /\ attempt' = attempt + 1
    /\ UNCHANGED retry_delay
    /\ IF attempt + 1 < max_retries
       THEN /\ upc' = "request"
            /\ UNCHANGED <<uret, uexit>>
       ELSE /\ upc' = "returned"
            /\ uret' = None
            /\ uexit' = 273

\* lines 245-261, 273: the re-fetch after a 409
URefetch ==
    /\ upc = "refetch"
    /\ \E o \in LookupOutcomes :
         LET r == get_confluence_page_id_and_version(creds, o, StoreResults(store, title))
             log == Append(ulog, Event("GET", attempt, r.id, r.version, None,
                                       LookupResp(r), 0))
         IN  /\ faults' = (faults \/ o # "ok")
             /\ writes' = IF faults' THEN <<>> ELSE writes
             /\ IF r.kind = "raise"
                THEN /\ upc' = "raised"
                     /\ uexit' = 176
                     /\ ulog' = log
                     /\ UNCHANGED <<page_id, current_version, attempt, retry_delay, uret>>
                ELSE /\ page_id' = r.id
                     /\ current_version' = r.version
                     /\ IF r.id = None
                        THEN RefetchNotFound(log)
                        ELSE Backoff(log, 261)
    /\ UNCHANGED <<creds, tree, client, svars, mvars, storevars, title, parent_id, action_taken, data, calls>>

\* The steps of a call once the settings are known to be there.
UpsertRequests ==
    \/ UFind
    \/ URequestOk
    \/ URequestConflict
    \/ URequestHttpError
    \/ URequestNetworkError
    \/ URefetch

Upsert == UNoCreds \/ UpsertRequests

\* ------------------------------------------------------- other writers
\* Someone else edits, deletes or creates the page the call is about.
OtherWriterEdits ==
    /\ ext < MaxExt
    /\ Len(store[title]) > 0
    /\ store' = [store EXCEPT ![title][1].version = @ + 1]
    /\ ext' = ext + 1
    /\ faults' = TRUE
    /\ writes' = <<>>
    /\ UNCHANGED <<creds, tree, client, svars, mvars, nextId, uvars, calls>>

OtherWriterDeletes ==
    /\ ext < MaxExt
    /\ Len(store[title]) > 0
    /\ store' = [store EXCEPT ![title] = Tail(@)]
    /\ ext' = ext + 1
    /\ faults' = TRUE
    /\ writes' = <<>>
    /\ UNCHANGED <<creds, tree, client, svars, mvars, nextId, uvars, calls>>

OtherWriterCreates ==
    /\ ext < MaxExt
    /\ Len(store[title]) = 0
    /\ store' = StoreCreate(store, title, nextId, None)
    /\ nextId' = nextId + 1
    /\ ext' = ext + 1
    /\ faults' = TRUE
    /\ writes' = <<>>
    /\ UNCHANGED <<creds, tree, client, svars, mvars, uvars, calls>>

OtherWriter == OtherWriterEdits \/ OtherWriterDeletes \/ OtherWriterCreates

\* Entering create_or_update_confluence_page(t, ..., par): fresh locals.
StartUpsert(t, par) ==
    /\ upc' = "find"
    /\ title' = t
    /\ parent_id' = par
    /\ page_id' = None
    /\ current_version' = None
    /\ attempt' = 0
    /\ retry_delay' = initial_retry_delay
    /\ action_taken' = "unbound"
    /\ data' = NoData
    /\ uret' = None
    /\ uexit' = 0
    /\ ulog' = <<>>

\* ----------------------------------------------------- get_ai_documentation
\* What one client.chat.completions.create call, with the extraction of line
\* 134, comes to:
\*   "ok"          a completion whose content has text
\*   "empty"       a completion whose content is empty or white space
\*   "malformed"   a completion without choices, or whose content is None
\*   "rate_limit"  HTTP 429
\*   "unavailable" HTTP 503
\*   "api_error"   any other API or connection error
ApiOutcomes == {"ok", "empty", "malformed", "rate_limit", "unavailable", "api_error"}

\* The exception the try block of lines 126-134 raises, "" for none.
Exception(o) ==
    CASE o = "rate_limit"  -> "openai.RateLimitError"
      [] o = "unavailable" -> "openai.InternalServerError"
      [] o = "api_error"   -> "openai.APIConnectionError"
      [] o = "malformed"   -> "AttributeError"
      [] OTHER             -> ""

\* Faulty variant: the second handler catches the API's errors only.
Handler_ApiErrorsOnly(exc) ==
    IF exc = "openai.RateLimitError" THEN "retry"
    ELSE IF exc \in {"openai.InternalServerError", "openai.APIConnectionError"}
         THEN "marker"
         ELSE "propagate"

\* Faulty variant: an unavailable service is waited for like a rate limit.
Handler_RetryUnavailable(exc) ==
    IF exc \in {"openai.RateLimitError", "openai.InternalServerError"}
    THEN "retry" ELSE "marker"

\* lines 135-142: the handler that takes the exception.  RateLimitError goes
\* to the first, every other Exception to the second.
Handler(exc) ==
    IF exc = "openai.RateLimitError" THEN "retry" ELSE "marker"

\* The texts the function returns: the completion's text, the empty string,
\* and the three error texts of lines 84, 142 and 146.
ClientMarker == "Error: OpenAI client not initialized"
ExceptionMarker == "h2. Error Generating Documentation: An error occurred"
RetriesMarker == "h2. Error Generating Documentation: Failed after multiple retries"
Markers == {ClientMarker, ExceptionMarker, RetriesMarker}

SEvent(op, att, resp, secs) == [op |-> op, att |-> att, resp |-> resp, secs |-> secs]

\* Entering get_ai_documentation: fresh locals.
StartSummary ==
    /\ spc' = "call"
    /\ s_attempt' = 0
    /\ s_retry_delay' = initial_retry_delay
    /\ sret' = ""
    /\ sexit' = 0
    /\ slog' = <<>>

\* lines 81-84
SNoClient ==
    /\ spc = "call"
    /\ ~client
    /\ spc' = "returned"
    /\ sret' = ClientMarker
    /\ sexit' = 84
    /\ UNCHANGED <<creds, tree, client, storevars, uvars, histvars, mvars,
                   s_attempt, s_retry_delay, slog>>

\* lines 125-146: one attempt
SAttempt ==
    /\ spc = "call"
    /\ client
    /\ \E o \in ApiOutcomes :
         LET exc == Exception(o)
             api == SEvent("API", s_attempt, o, 0)
         IN  IF exc = ""
             THEN /\ spc' = "returned"
                  /\ sret' = IF o = "ok" THEN "summary" ELSE ""
                  /\ sexit' = 134
                  /\ slog' = Append(slog, api)
                  /\ UNCHANGED <<s_attempt, s_retry_delay>>
             ELSE IF Handler(exc) = "retry"
             THEN /\ slog' = slog \o <<api, SEvent("SLEEP", s_attempt, "", s_retry_delay)>>
                  /\ s_retry_delay' = s_retry_delay * 2
                  /\ s_attempt' = s_attempt + 1
                  /\ IF s_attempt + 1 < max_retries
                     THEN UNCHANGED <<spc, sret, sexit>>
                     ELSE /\ spc' = "returned"
                          /\ sret' = RetriesMarker
                          /\ sexit' = 146
             ELSE IF Handler(exc) = "marker"
             THEN /\ spc' = "returned"
                  /\ sret' = ExceptionMarker
                  /\ sexit' = 142
                  /\ slog' = Append(slog, api)
                  /\ UNCHANGED <<s_attempt, s_retry_delay>>
             ELSE /\ spc' = "raised"
                  /\ sexit' = 127
                  /\ slog' = Append(slog, api)
                  /\ UNCHANGED <<s_attempt, s_retry_delay, sret>>
    /\ UNCHANGED <<creds, tree, client, storevars, uvars, histvars, mvars>>

Summarizer == SNoClient \/ SAttempt

\* ---------------------------------------------- process_directory_recursively
TEvent(ev, p, text, par) == [ev |-> ev, path |-> p, text |-> text, par |-> par]

\* Faulty variant: every call below the first keeps the parent of the first.
Frame_RootParent(d, par) ==
    [dir |-> d, items |-> sorted(listdir(d)), idx |-> 1,
     parent |-> IF Len(stack) = 0 THEN par ELSE stack[1].parent]

\* lines 276-288: one call of process_directory_recursively: the directory,
\* its sorted listing, the place in the loop, current_confluence_parent_id
Frame(d, par) == [dir |-> d, items |-> sorted(listdir(d)), idx |-> 1, parent |-> par]

Top == stack[Len(stack)]

\* The innermost loop takes its next item.
Advance == [stack EXCEPT ![Len(stack)].idx = @ + 1]

\* lines 288-292, 350-351: the loop is over (the call returns), or the item
\* is neither a directory nor a Python file
TLoop ==
    /\ mpc = "walk"
    /\ IF Top.idx > Len(Top.items)
       THEN /\ stack' = SubSeq(stack, 1, Len(stack) - 1)
            /\ IF Len(stack) = 1
               THEN mpc' = "exited" /\ exit_code' = 0
               ELSE UNCHANGED <<mpc, exit_code>>
            /\ UNCHANGED <<entry, tlog>>
       ELSE LET p == Append(Top.dir, Top.items[Top.idx])
            IN  /\ ~isdir(p)
                /\ ~endswith_py(Top.items[Top.idx])
                /\ stack' = Advance
                /\ entry' = p
                /\ tlog' = tlog \o <<TEvent("visit", p, "", None), TEvent("skip", p, "", None)>>
                /\ UNCHANGED <<mpc, exit_code>>
    /\ UNCHANGED <<creds, tree, client, storevars, uvars, histvars, svars, config, code_path_ok>>

\* lines 294-308: a directory: upsert its page under the current parent
TDir ==
    /\ mpc = "walk"
    /\ Top.idx <= Len(Top.items)
    /\ LET p == Append(Top.dir, Top.items[Top.idx])
       IN  /\ isdir(p)
           /\ stack' = Advance
           /\ entry' = p
           /\ tlog' = tlog \o <<TEvent("visit", p, "", None),
                                TEvent("upsert", p, "directory", Top.parent)>>
           /\ StartUpsert(dir_page_title(p), Top.parent)
    /\ mpc' = "dir_upsert"
    /\ UNCHANGED <<creds, tree, client, storevars, histvars, svars, config, code_path_ok, exit_code>>

\* Faulty variant: a directory whose page failed ends the process with
\* status 1.
AfterDirUpsert_FailExits ==
    IF upc = "raised" \/ uret = None
    THEN /\ mpc' = "exited"
         /\ exit_code' = 1
         /\ stack' = <<>>
    ELSE /\ mpc' = "walk"
         /\ stack' = Append(stack, Frame(entry, uret))
         /\ UNCHANGED exit_code

\* Faulty variant: a directory whose page failed is walked all the same,
\* under the parent of the directory.
AfterDirUpsert_Descends ==
    IF upc = "raised"
    THEN /\ mpc' = "exited"
         /\ exit_code' = 1
         /\ stack' = <<>>
    ELSE /\ mpc' = "walk"
         /\ stack' = Append(stack, Frame(entry, IF uret # None THEN uret ELSE Top.parent))
         /\ UNCHANGED exit_code

\* lines 303-315: the upsert of the directory's page is not inside a try, so
\* what it raises leaves every frame and ends the process; None skips the
\* subtree; an id is the parent of the recursive call
AfterDirUpsert ==
    IF upc = "raised"
    THEN /\ mpc' = "exited"
         /\ exit_code' = 1
         /\ stack' = <<>>
    ELSE IF uret # None
    THEN /\ mpc' = "walk"
         /\ stack' = Append(stack, Frame(entry, uret))
         /\ UNCHANGED exit_code
    ELSE /\ mpc' = "walk"
         /\ UNCHANGED <<stack, exit_code>>

TDirDone ==
    /\ mpc = "dir_upsert"
    /\ upc \in {"returned", "raised"}
    /\ AfterDirUpsert
    /\ tlog' = Append(tlog, TEvent(IF upc = "raised" THEN "raise"
                                   ELSE IF uret = None THEN "failed" ELSE "published",
                                   entry, "", uret))
    /\ upc' = "idle"
    /\ UNCHANGED <<creds, tree, client, storevars, title, parent_id, page_id, current_version,
                   attempt, retry_delay, action_taken, data, uret, uexit, ulog,
                   histvars, svars, config, code_path_ok, entry>>

\* lines 317-333: a Python file: skip it when blank, else ask for its summary
TFile ==
    /\ mpc = "walk"
    /\ Top.idx <= Len(Top.items)
    /\ LET p == Append(Top.dir, Top.items[Top.idx])
       IN  /\ ~isdir(p)
           /\ endswith_py(Top.items[Top.idx])
           /\ stack' = Advance
           /\ entry' = p
           /\ IF blank(p)
              THEN /\ tlog' = tlog \o <<TEvent("visit", p, "", None),
                                        TEvent("skip", p, "", None)>>
                   /\ UNCHANGED <<mpc, svars>>
              ELSE /\ tlog' = tlog \o <<TEvent("visit", p, "", None),
                                        TEvent("summarize", p, "", None)>>
                   /\ mpc' = "summarize"
                   /\ StartSummary
    /\ UNCHANGED <<creds, tree, client, storevars, uvars, histvars, config, code_path_ok, exit_code>>

\* Faulty variant: the text is published whatever it is.
Publishable_Always(text) == TRUE

\* line 335: `if ai_doc_content:`
Publishable(text) == text # ""

\* lines 335-349: publish the text, or report that there is none; what the
\* summarizer raised is caught by line 348
TSummaryDone ==
    /\ mpc = "summarize"
    /\ spc \in {"returned", "raised"}
    /\ spc' = "idle"
    /\ IF spc = "returned" /\ Publishable(sret)
       THEN /\ mpc' = "file_upsert"
            /\ tlog' = tlog \o <<TEvent("summarized", entry, sret, None),
                                 TEvent("upsert", entry, sret, Top.parent)>>
            /\ StartUpsert(file_page_title(entry), Top.parent)
       ELSE /\ mpc' = "walk"
            /\ tlog' = tlog \o <<TEvent(IF spc = "raised" THEN "caught" ELSE "summarized",
                                        entry, sret, None),
                                 TEvent("skip", entry, "", None)>>
            /\ UNCHANGED uvars
    /\ UNCHANGED <<creds, tree, client, storevars, histvars, s_attempt, s_retry_delay, sret,
                   sexit, slog, config, code_path_ok, stack, entry, exit_code>>

\* lines 338-349: the upsert of a file's page is inside the try of line 322:
\* its result is dropped, and what it raises is caught by line 348
TFileDone ==
    /\ mpc = "file_upsert"
    /\ upc \in {"returned", "raised"}
    /\ mpc' = "walk"
    /\ upc' = "idle"
    /\ tlog' = Append(tlog, TEvent(IF upc = "raised" THEN "caught"
                                   ELSE IF uret = None THEN "failed" ELSE "published",
                                   entry, "", uret))
    /\ UNCHANGED <<creds, tree, client, storevars, title, parent_id, page_id, current_version,
                   attempt, retry_delay, action_taken, data, uret, uexit, ulog,
                   histvars, svars, config, code_path_ok, stack, entry, exit_code>>

Traversal == TLoop \/ TDir \/ TDirDone \/ TFile \/ TSummaryDone \/ TFileDone

\* ---------------------------------------------------------- the main block
\* lines 357-364: a missing setting or client ends the process with status 1
MConfigError ==
    /\ mpc = "start"
    /\ ~(config /\ creds /\ client)
    /\ mpc' = "exited"
    /\ exit_code' = 1
    /\ UNCHANGED <<creds, tree, client, storevars, uvars, histvars, svars, config,
                   code_path_ok, stack, entry, tlog>>

\* lines 390-395: the root page, without a parent
MRoot ==
    /\ mpc = "start"
    /\ config /\ creds /\ client
    /\ mpc' = "root_upsert"
    /\ StartUpsert(ROOT_DOC_PROJECT_TITLE, None)
    /\ tlog' = Append(tlog, TEvent("upsert", <<>>, "root", None))
    /\ UNCHANGED <<creds, tree, client, storevars, histvars, svars, config, code_path_ok,
                   stack, entry, exit_code>>

\* lines 397-427: walk the code path under the root page's id; no root page,
\* or a code path that is no directory, ends the process with status 1, and
\* so does what the upsert raised
MRootDone ==
    /\ mpc = "root_upsert"
    /\ upc \in {"returned", "raised"}
    /\ upc' = "idle"
    /\ tlog' = Append(tlog, TEvent(IF upc = "raised" THEN "raise"
                                   ELSE IF uret = None THEN "failed" ELSE "published",
                                   <<>>, "", uret))
    /\ IF upc = "returned" /\ uret # None /\ code_path_ok
       THEN /\ mpc' = "walk"
            /\ stack' = <<Frame(<<>>, uret)>>
            /\ UNCHANGED exit_code
       ELSE /\ mpc' = "exited"
            /\ exit_code' = 1
            /\ UNCHANGED stack
    /\ UNCHANGED <<creds, tree, client, storevars, title, parent_id, page_id, current_version,
                   attempt, retry_delay, action_taken, data, uret, uexit, ulog,
                   histvars, svars, config, code_path_ok, entry>>

Main == MConfigError \/ MRoot \/ MRootDone

\* ------------------------------------------------- the driver of Spec
\* A caller that upserts the same title again and again, as the main block
\* does with the root page on every run (lines 390-395).
Call ==
    /\ upc \in {"idle", "returned"}
    /\ calls < MaxCalls
    /\ calls' = calls + 1
    /\ StartUpsert(ROOT_DOC_PROJECT_TITLE, None)
    /\ UNCHANGED <<creds, tree, client, svars, mvars, storevars, writes, faults>>

EmptyStore == [t \in Titles |-> <<>>]

InitStore ==
    \/ /\ store = EmptyStore
       /\ nextId = 1
       /\ faults = FALSE
    \/ /\ store = StoreCreate(EmptyStore, ROOT_DOC_PROJECT_TITLE, 1, None)
       /\ nextId = 2
       /\ faults = TRUE

InitLocals ==
    /\ ext = 0
    /\ upc = "idle"
    /\ title = ROOT_DOC_PROJECT_TITLE
    /\ parent_id = None
    /\ page_id = None
    /\ current_version = None
    /\ attempt = 0
    /\ retry_delay = initial_retry_delay
    /\ action_taken = "unbound"
    /\ data = NoData
    /\ uret = None
    /\ uexit = 0
    /\ ulog = <<>>
    /\ calls = 0
    /\ writes = <<>>
    /\ spc = "idle"
    /\ s_attempt = 0
    /\ s_retry_delay = initial_retry_delay
    /\ sret = ""
    /\ sexit = 0
    /\ slog = <<>>
    /\ mpc = "start"
    /\ stack = <<>>
    /\ entry = <<>>
    /\ exit_code = 0
    /\ tlog = <<>>

\* The upsert on its own, called by the driver.
Init ==
    /\ tree = "plain"
    /\ creds \in BOOLEAN
    /\ client = TRUE
    /\ config = TRUE
    /\ code_path_ok = TRUE
    /\ InitStore
    /\ InitLocals

Next == Call \/ Upsert \/ OtherWriter

Spec == Init /\ [][Next]_vars

\* The whole script: the environment it starts in is any setting of the
\* variables it reads, and a space that is empty or was filled before.
InitMain ==
    /\ tree \in Trees
    /\ creds \in BOOLEAN
    /\ client \in BOOLEAN
    /\ config \in BOOLEAN
    /\ code_path_ok \in BOOLEAN
    /\ InitStore
    /\ InitLocals

\* Lines 357-364 let the script go on only with every setting and the client
\* there, so the branches of lines 81-84 and 183-186 are never taken in it.
NextMain == Main \/ Traversal \/ UpsertRequests \/ SAttempt

SpecMain == InitMain /\ [][NextMain]_vars

\* ------------------------------------------------ the driver of SpecSummary
ContentFiles == {p \in TreePaths(tree) : ~isdir(p) /\ endswith_py(p[Len(p)]) /\ ~blank(p)}

\* A caller that asks for the summary of one file after another.
CallSummary ==
    /\ spc \in {"idle", "returned"}
    /\ calls < MaxSummaries
    /\ calls' = calls + 1
    /\ \E p \in ContentFiles : entry' = p
    /\ StartSummary
    /\ UNCHANGED <<creds, tree, client, storevars, uvars, writes, faults, config,
                   code_path_ok, mpc, stack, exit_code, tlog>>

InitSummary ==
    /\ tree = "plain"
    /\ creds = TRUE
    /\ client \in BOOLEAN
    /\ config = TRUE
    /\ code_path_ok = TRUE
    /\ store = EmptyStore
    /\ nextId = 1
    /\ faults = FALSE
    /\ InitLocals

NextSummary == CallSummary \/ Summarizer

SpecSummary == InitSummary /\ [][NextSummary]_vars

\* ------------------------------------------------------------------ claims
IsWrite(e) == e.op \in {"PUT", "POST"}

\* The first event of a call is its initial lookup; every later GET is a
\* re-fetch.
Refetches == {i \in 2..Len(ulog) : ulog[i].op = "GET"}

Conflicts == {i \in DOMAIN ulog : IsWrite(ulog[i]) /\ ulog[i].resp = "conflict"}

HasWriteAfter(i) == \E j \in (i+1)..Len(ulog) : IsWrite(ulog[j])

FirstWriteAfter(i) ==
    CHOOSE j \in (i+1)..Len(ulog) :
        /\ IsWrite(ulog[j])
        /\ \A k \in (i+1)..(j-1) : ~IsWrite(ulog[k])

LastLookupBefore(j) ==
    CHOOSE k \in 1..(j-1) :
        /\ ulog[k].op = "GET"
        /\ \A m \in (k+1)..(j-1) : ulog[m].op # "GET"

\* C1: the lookup never propagates an error: whatever the outcome of its
\* request, a network failure without response included, it returns to its
\* caller.
C1_LookupNeverRaises ==
    \A i \in DOMAIN ulog : ulog[i].op = "GET" => ulog[i].resp # "raise"

\* C2: an upsert call that has issued a create/update request, the very first
\* one answered by a network error included, ends by returning and never by
\* raising.
C2_UpsertNeverRaises ==
    (\E i \in DOMAIN ulog : IsWrite(ulog[i])) => upc # "raised"

\* C4, as stated: one upsert call performs at most one conflict re-fetch.
C4_AtMostOneRefetch == Cardinality(Refetches) <= 1

\* C4, amended: every 409 is followed by exactly one re-fetch, every re-fetch
\* follows a 409, there is at most one re-fetch per attempt and so at most
\* max_retries re-fetches per call.
C4_OneRefetchPerConflict ==
    /\ \A i \in Refetches : i - 1 \in Conflicts
    /\ \A i \in Conflicts :
         IF i = Len(ulog) THEN upc = "refetch" ELSE i + 1 \in Refetches
    /\ \A i, j \in Refetches : ulog[i].att = ulog[j].att => i = j
    /\ Cardinality(Refetches) <= max_retries

C4_Witness == Cardinality(Refetches) = max_retries

\* What C5 asks of the 409 that update number i of the log received, once
\* its re-fetch has returned: the next request is an update of the re-fetched
\* id carrying the re-fetched version + 1, or a create when the re-fetch found
\* no page; until that request is issued the call is on its way to it.
ConflictRetried(i) ==
    LET g == ulog[i + 1]
    IN  IF HasWriteAfter(i + 1)
        THEN LET w == ulog[FirstWriteAfter(i + 1)]
             IN  IF g.resp = "found"
                 THEN w.op = "PUT" /\ w.id = g.id /\ w.ver = g.ver + 1
                 ELSE w.op = "POST"
        ELSE upc = "request"

RefetchedUpdates ==
    {i \in 1..(Len(ulog) - 1) :
        /\ ulog[i].op = "PUT"
        /\ ulog[i].resp = "conflict"
        /\ ulog[i + 1].resp # "raise"}

\* C5, as stated: on whichever attempt an update receives 409, the re-fetch is
\* followed by an update with the re-fetched version + 1, or by a create.
C5_ConflictRetriedOnEveryAttempt ==
    \A i \in RefetchedUpdates : ConflictRetried(i)

\* C5, amended: the same for a 409 received on an attempt before the last
\* (the third); a 409 on the last attempt ends the call with None and no
\* further request.
C5_ConflictRetriedBeforeLastAttempt ==
    /\ \A i \in RefetchedUpdates :
         ulog[i].att < max_retries - 1 => ConflictRetried(i)
    /\ \A i \in RefetchedUpdates :
         ulog[i].att = max_retries - 1 =>
             upc = "returned" /\ uret = None /\ ~HasWriteAfter(i)

\* An update got 409, the re-fetch saw another version than the first lookup,
\* and the update was issued again.
C5_Witness ==
    \E i \in RefetchedUpdates :
        /\ ulog[i + 1].resp = "found"
        /\ ulog[i + 1].ver + 1 # ulog[i].ver
        /\ HasWriteAfter(i + 1)

\* C6: every create/update request is determined by the lookup that precedes
\* it (the initial one, or the latest re-fetch): after not-found it is a
\* create, after (id, version) it is an update of that id with version + 1.
C6_WriteFollowsLookup ==
    \A j \in DOMAIN ulog :
        IsWrite(ulog[j]) =>
            /\ \E k \in 1..(j-1) : ulog[k].op = "GET"
            /\ LET g == ulog[LastLookupBefore(j)]
               IN  /\ g.resp = "not_found" => ulog[j].op = "POST"
                   /\ g.resp = "found" =>
                        /\ ulog[j].op = "PUT"
                        /\ ulog[j].id = g.id
                        /\ ulog[j].ver = g.ver + 1
                   /\ g.resp # "raise"

\* One call that issued a create after a not-found lookup and an update
\* after a lookup that found the page.
C6_Witness ==
    \E i, j \in DOMAIN ulog : ulog[i].op = "POST" /\ ulog[j].op = "PUT"

\* The version a page has when the store has just created it.
FreshVersion == StoreCreate(EmptyStore, ROOT_DOC_PROJECT_TITLE, 1, None)[ROOT_DOC_PROJECT_TITLE][1].version

TwoCleanCalls == creds /\ ~faults /\ calls = 2 /\ upc = "returned"

\* C7: against a store that starts without the title and answers every
\* request successfully, two upserts of the title issue exactly one create and
\* then exactly one update, the update carries the created page's version + 1
\* and addresses the created page, and the store ends with a single page.
C7_CreateThenUpdate ==
    TwoCleanCalls =>
        /\ Len(writes) = 2
        /\ writes[1].op = "POST"
        /\ writes[2].op = "PUT"
        /\ writes[2].ver = FreshVersion + 1
        /\ Len(store[title]) = 1
        /\ writes[2].id = store[title][1].id
        /\ store[title][1].version = FreshVersion + 1

C7_Witness == TwoCleanCalls /\ Len(writes) = 2

APICalls == {i \in DOMAIN slog : slog[i].op = "API"}

\* Once the summarizer has returned, its text goes with the answer it got.
SummaryText ==
    spc = "returned" /\ client =>
        LET last == slog[Len(slog)]
        IN  /\ last.op = "API" /\ last.resp = "ok" => sret = "summary"
            /\ last.op = "API" /\ last.resp = "empty" => sret = ""
            /\ last.op = "API" /\ last.resp \in {"malformed", "unavailable", "api_error"}
                 => sret = ExceptionMarker
            /\ last.op = "SLEEP" => sret = RetriesMarker

\* In every directory whose walk began, every entry has been visited.
Entered(d) ==
    \E i \in DOMAIN tlog :
        tlog[i].ev = "published" /\ tlog[i].path = d /\ (d = <<>> => code_path_ok)

Visited(p) == \E i \in DOMAIN tlog : tlog[i].ev = "visit" /\ tlog[i].path = p

\* C3: whatever fails on a file page or a directory page, the traversal
\* visits every remaining sibling and returns normally: when the process has
\* ended after the walk began, it ended with status 0 and every entry of
\* every directory it entered was visited.
C3_FailuresContained ==
    mpc = "exited" /\ Entered(<<>>) =>
        /\ exit_code = 0
        /\ \A d \in TreeDirs(tree) : Entered(d) => \A n \in listdir(d) : Visited(Append(d, n))

UpsertsOf(p) == {i \in DOMAIN tlog : tlog[i].ev = "upsert" /\ tlog[i].path = p}

\* C8, as stated: every file handed to the summarizer gets exactly one upsert,
\* with the summary or with an error placeholder, whatever the summarizer's
\* outcome.
C8_AlwaysPublished ==
    \A i \in DOMAIN tlog :
        tlog[i].ev = "summarized" =>
            /\ tlog[i + 1].ev = "upsert"
            /\ tlog[i + 1].path = tlog[i].path
            /\ tlog[i + 1].text \in {"summary"} \cup Markers

\* C8, amended: every file handed to the summarizer gets exactly one upsert
\* when the summarizer returns text: the summary, or the error placeholder
\* after an API error, exhausted retries or a malformed response; when the
\* completion is empty the summarizer returns the empty string and the file
\* is skipped without an upsert.
C8_PublishedUnlessEmpty ==
    /\ \A i \in DOMAIN tlog :
         tlog[i].ev = "summarize" /\ i < Len(tlog) =>
             tlog[i + 1].ev = "summarized" /\ tlog[i + 1].path = tlog[i].path
    /\ \A i \in DOMAIN tlog :
         tlog[i].ev = "summarized" =>
             IF tlog[i].text = ""
             THEN tlog[i + 1].ev = "skip" /\ UpsertsOf(tlog[i].path) = {}
             ELSE /\ tlog[i + 1].ev = "upsert"
                  /\ tlog[i + 1].path = tlog[i].path
                  /\ tlog[i + 1].text = tlog[i].text
                  /\ tlog[i].text \in {"summary"} \cup Markers
                  /\ UpsertsOf(tlog[i].path) = {i + 1}
    /\ SummaryText

\* One file was published with the placeholder of a failed summary and
\* another was skipped over an empty one.
C8_Witness ==
    /\ \E i \in DOMAIN tlog : tlog[i].ev = "upsert" /\ tlog[i].text = ExceptionMarker
    /\ \E i \in DOMAIN tlog : tlog[i].ev = "summarized" /\ tlog[i].text = ""

\* The API call at place i of the log was not the last one allowed.
BeforeCeiling(i) == slog[i].att < max_retries - 1

\* After the failed call at place i the summarizer sleeps and tries again.
Retried(i) ==
    /\ i < Len(slog)
    /\ slog[i + 1].op = "SLEEP"
    /\ IF i + 1 = Len(slog) THEN spc = "call" ELSE slog[i + 2].op = "API"

\* C9, as stated: a 429 and a 503 alike are followed by a backoff sleep and
\* another attempt, until the ceiling is reached.
C9_Retries429And503 ==
    \A i \in APICalls :
        slog[i].resp \in {"rate_limit", "unavailable"} /\ BeforeCeiling(i) => Retried(i)

\* C9, amended: only a 429 is followed by a backoff sleep and another
\* attempt until the ceiling is reached; a 503 ends the call with the error
\* placeholder after that single attempt.
C9_RetriesOn429Only ==
    /\ \A i \in APICalls :
         slog[i].resp = "rate_limit" /\ BeforeCeiling(i) => Retried(i)
    /\ \A i \in APICalls :
         slog[i].resp = "unavailable" =>
             i = Len(slog) /\ spc = "returned" /\ sret = ExceptionMarker

\* A 429 was waited for and retried, and the retry was given up on a 503.
C9_Witness ==
    /\ Len(slog) = 3
    /\ slog[1].resp = "rate_limit"
    /\ slog[3].resp = "unavailable"

\* C10: the summarizer never raises and makes at most max_retries API calls;
\* it returns the client placeholder without a call when there is no client,
\* the retries placeholder once every attempt was rate-limited, and the error
\* placeholder right after any other failure, a malformed completion
\* included.
C10_SummarizerReturnsText ==
    /\ spc # "raised"
    /\ Cardinality(APICalls) <= max_retries
    /\ spc = "call" => s_attempt < max_retries
    /\ \A i \in APICalls : slog[i].resp # "rate_limit" => i = Len(slog) /\ spc = "returned"
    /\ spc = "returned" =>
         /\ sret \in {"summary", ""} \cup Markers
         /\ ~client => sret = ClientMarker /\ slog = <<>>
         /\ (client /\ \A i \in APICalls : slog[i].resp = "rate_limit") =>
                sret = RetriesMarker /\ Cardinality(APICalls) = max_retries
    /\ SummaryText

C10_Witness ==
    /\ spc = "returned"
    /\ sret = RetriesMarker
    /\ Cardinality(APICalls) = max_retries

\* --------------------------------------------------------------- the walk
\* Path p lies inside directory d.
IsInside(p, d) == Len(p) > Len(d) /\ SubSeq(p, 1, Len(d)) = d

\* The directory an entry is listed in.
Container(p) == SubSeq(p, 1, Len(p) - 1)

\* The entries listed after p in the directory of p.
FollowingSiblings(p) ==
    {Append(Container(p), n) : n \in {m \in listdir(Container(p)) : str_less(p[Len(p)], m)}}

\* The first of the entries listed after p.
NextSibling(p) ==
    CHOOSE q \in FollowingSiblings(p) :
        \A r \in FollowingSiblings(p) \ {q} : str_less(q[Len(q)], r[Len(r)])

\* The places of the log where the upsert of a directory's page returned None.
FailedDirs == {i \in DOMAIN tlog : tlog[i].ev = "failed" /\ isdir(tlog[i].path)}

\* C11: when the upsert of a directory's page returns None, nothing inside
\* the directory is visited, summarized or upserted, and the walk goes on
\* with the directory's next sibling; when the process ends with status 0
\* every following sibling was visited.
C11_FailedSubtreeSkipped ==
    \A i \in FailedDirs :
        LET d == tlog[i].path
        IN  /\ \A j \in DOMAIN tlog : ~IsInside(tlog[j].path, d)
            /\ mpc \in {"dir_upsert", "summarize", "file_upsert"} => ~IsInside(entry, d)
            /\ \A f \in DOMAIN stack : stack[f].dir # d
            /\ i < Len(tlog) =>
                  /\ tlog[i + 1].ev = "visit"
                  /\ FollowingSiblings(d) # {} => tlog[i + 1].path = NextSibling(d)
            /\ mpc = "exited" /\ exit_code = 0 => \A q \in FollowingSiblings(d) : Visited(q)

\* The page of directory a failed, and the page of its sibling b.py was
\* published afterwards.
C11_Witness ==
    \E i \in FailedDirs :
        /\ tlog[i].path = <<name_a>>
        /\ \E j \in DOMAIN tlog :
             j > i /\ tlog[j].ev = "published" /\ tlog[j].path = <<name_b_py>>

\* The ids that the upsert of the page of entry p returned.
ReturnedIds(p) ==
    {tlog[i].par : i \in {j \in DOMAIN tlog : tlog[j].ev = "published" /\ tlog[j].path = p}}

\* The page title of an entry.
TitleOf(p) == IF isdir(p) THEN dir_page_title(p) ELSE file_page_title(p)

PublishedAt(p, id) ==
    {i \in DOMAIN tlog : tlog[i].ev = "published" /\ tlog[i].path = p /\ tlog[i].par = id}

\* C13: a page is upserted only after the upsert of its parent's page has
\* returned the parent's id: every upsert of the traversal, and every create
\* or update request naming an ancestor, comes after the containing
\* directory's upsert returned that id; nothing below the root is visited
\* before the root page's upsert returned an id; and every parent named by a
\* stored page is the id of a stored page.
C13_ParentBeforeChild ==
    /\ \A j \in DOMAIN tlog :
         tlog[j].ev = "upsert" /\ tlog[j].path # <<>> =>
             \E i \in PublishedAt(Container(tlog[j].path), tlog[j].par) : i < j
    /\ \A j \in DOMAIN tlog :
         tlog[j].path # <<>> => \E i \in DOMAIN tlog :
             i < j /\ tlog[i].ev = "published" /\ tlog[i].path = <<>> /\ tlog[i].par # None
    /\ \A k \in DOMAIN ulog :
         IsWrite(ulog[k]) /\ ulog[k].par # None =>
             /\ mpc \in {"dir_upsert", "file_upsert"}
                  => PublishedAt(Container(entry), ulog[k].par) # {}
             /\ \E t \in Titles : \E n \in DOMAIN store[t] : store[t][n].id = ulog[k].par
    /\ \A t \in Titles : \A n \in DOMAIN store[t] :
         store[t][n].parent # None =>
             \E t2 \in Titles : \E n2 \in DOMAIN store[t2] : store[t2][n2].id = store[t][n].parent

\* A create request for the page of a/m.py is out, naming the id that the
\* upsert of a's page returned before.
C13_Witness ==
    /\ mpc = "file_upsert"
    /\ entry = <<name_a, name_m_py>>
    /\ \E k \in DOMAIN ulog :
         /\ ulog[k].op = "POST"
         /\ PublishedAt(<<name_a>>, ulog[k].par) # {}
         /\ PublishedAt(<<>>, ulog[k].par) = {}

\* The entries that get a page: the directories, and the Python files whose
\* content is not white space only.
Eligible(p) == isdir(p) \/ (endswith_py(p[Len(p)]) /\ p \notin WhitespaceFiles(tree))

EligibleEntries == {p \in TreePaths(tree) : Eligible(p)}

\* The entries below the root whose page the traversal upserted.
Upserted == {tlog[i].path : i \in {j \in DOMAIN tlog : tlog[j].ev = "upsert"}} \ {<<>>}

\* Nothing failed in the run but upserts of directory pages: every summary
\* came with its text and every upsert of a file page returned an id.
OnlyDirFailures ==
    \A i \in DOMAIN tlog :
        /\ tlog[i].ev \notin {"caught", "raise"}
        /\ tlog[i].ev = "summarized" => tlog[i].text = "summary"
        /\ tlog[i].ev = "failed" => isdir(tlog[i].path)

\* C14: in a run that walked the tree to its end, when every request to the
\* page store and every summary succeeded the entries upserted are the
\* directories and the non-blank Python files, each upserted once, and
\* distinct entries were upserted under distinct titles; when nothing failed
\* but upserts of directory pages, the entries upserted are those outside the
\* directories whose page failed.
C14_TitlesMatchEntries ==
    mpc = "exited" /\ exit_code = 0 /\ Entered(<<>>) /\ OnlyDirFailures =>
        /\ Upserted = {p \in EligibleEntries :
                          \A i \in FailedDirs : ~IsInside(p, tlog[i].path)}
        /\ \A p \in Upserted : Cardinality(UpsertsOf(p)) = 1
        /\ ~faults =>
              /\ Upserted = EligibleEntries
              /\ \A p, q \in Upserted : p # q => TitleOf(p) # TitleOf(q)

\* --------------------------------------------------------- the exit status
\* Every setting is there and the client was built.
Configured == config /\ creds /\ client

\* The upsert of the root page returned an id.
RootPublished == \E i \in DOMAIN tlog : tlog[i].ev = "published" /\ tlog[i].path = <<>>

\* An exception left the traversal.
Escaped == \E i \in DOMAIN tlog : tlog[i].ev = "raise" /\ tlog[i].path # <<>>

\* Every entry of every directory whose page was published has been visited.
WalkComplete ==
    \A d \in TreeDirs(tree) :
        ReturnedIds(d) # {} => \A n \in listdir(d) : Visited(Append(d, n))

\* C15, as stated: the process ends with a status other than 0 exactly when a
\* setting is missing, the client was not built or the root page was not
\* published; in every other run it walks the whole tree and ends with 0.
C15_ExitStatusAsStated ==
    mpc = "exited" =>
        /\ exit_code # 0 <=> (~Configured \/ ~RootPublished)
        /\ exit_code = 0 => WalkComplete

\* C15, amended: the process ends with a status other than 0 exactly when a
\* setting is missing, the client was not built, the root page was not
\* published, the code path is not a directory, or an exception left the
\* traversal; in every other run it walks the whole tree and ends with 0,
\* whatever failed on the way.
C15_ExitStatus ==
    mpc = "exited" =>
        /\ exit_code \in {0, 1}
        /\ exit_code # 0 <=> (~Configured \/ ~RootPublished \/ ~code_path_ok \/ Escaped)
        /\ exit_code = 0 => WalkComplete

\* A run ended with status 0 although the page of a directory and the page
\* of a file failed on the way.
C15_Witness ==
    /\ mpc = "exited"
    /\ exit_code = 0
    /\ \E i \in FailedDirs : tlog[i].path # <<>>
    /\ \E i \in DOMAIN tlog : ~isdir(tlog[i].path) /\ tlog[i].ev \in {"failed", "caught"}

\* ------------------------------------------------------------- the order
\* The entries below directory d among the names S, each directory followed
\* by what is below it, the names in ascending order.
RECURSIVE ListFrom(_, _)
ListFrom(d, S) ==
    IF S = {} THEN <<>>
    ELSE LET n == CHOOSE m \in S : \A o \in S \ {m} : str_less(m, o)
             p == Append(d, n)
         IN  <<p>> \o (IF isdir(p) THEN ListFrom(p, listdir(p)) ELSE <<>>)
                 \o ListFrom(d, S \ {n})

\* The upsert of the page of directory d returned None or raised.
Unpublished(d) ==
    \E i \in DOMAIN tlog : tlog[i].path = d /\ tlog[i].ev \in {"failed", "raise"}

\* The entries in the order of their visits.
RECURSIVE VisitsUpTo(_)
VisitsUpTo(n) ==
    IF n = 0 THEN <<>>
    ELSE IF tlog[n].ev = "visit" THEN Append(VisitsUpTo(n - 1), tlog[n].path)
    ELSE VisitsUpTo(n - 1)

Visits == VisitsUpTo(Len(tlog))

\* The order the tree prescribes, without what lies inside the directories
\* whose page was not published.
ExpectedVisits ==
    LET Reached(p) == \A d \in TreeDirs(tree) : IsInside(p, d) => ~Unpublished(d)
    IN  SelectSeq(ListFrom(<<>>, listdir(<<>>)), Reached)

\* C16: the entries are visited in ascending order of their names, each
\* directory followed by everything below it before its next sibling: the
\* visits so far are the beginning of the one order that the tree and the
\* failed directory pages prescribe, all of it when the process ends with
\* status 0; and a directory's visit is followed at once by the upsert of
\* its page.
C16_VisitOrder ==
    /\ Len(Visits) <= Len(ExpectedVisits)
    /\ Visits = SubSeq(ExpectedVisits, 1, Len(Visits))
    /\ mpc = "exited" /\ exit_code = 0 => Visits = ExpectedVisits
    /\ \A i \in DOMAIN tlog :
         tlog[i].ev = "visit" /\ isdir(tlog[i].path) =>
             tlog[i + 1].ev = "upsert" /\ tlog[i + 1].path = tlog[i].path

\* The run is over with all five entries visited: a, a/m.py, b.py, c.py,
\* d.txt.
C16_Witness ==
    /\ mpc = "exited"
    /\ exit_code = 0
    /\ Visits = <<<<name_a>>, <<name_a, name_m_py>>, <<name_b_py>>, <<name_c_py>>,
                  <<name_d_txt>>>>

\* The places of the log where an entry that gets no page was visited: a
\* file that is no Python file, or a Python file of white space only.
IneligibleVisits ==
    {i \in DOMAIN tlog : tlog[i].ev = "visit" /\ ~Eligible(tlog[i].path)}

\* C17: an entry that is neither a directory nor a non-blank Python file is
\* skipped in the step that visits it: no summary and no upsert is ever
\* started for it, no page is stored under its title, and the walk goes on
\* with the next entry.
C17_IneligibleNoEffect ==
    \A i \in IneligibleVisits :
        LET p == tlog[i].path
        IN  /\ tlog[i + 1].ev = "skip" /\ tlog[i + 1].path = p
            /\ \A j \in DOMAIN tlog : tlog[j].path = p => j \in {i, i + 1}
            /\ i + 1 < Len(tlog) => tlog[i + 2].ev = "visit"
            /\ mpc \in {"summarize", "file_upsert", "dir_upsert"} => entry # p
            /\ upc # "idle" => title # file_page_title(p)
            /\ store[file_page_title(p)] = <<>>

\* The blank c.py and d.txt were both skipped, and the page of b.py, visited
\* before them, was published.
C17_Witness ==
    /\ \E i \in IneligibleVisits : tlog[i].path = <<name_c_py>>
    /\ \E i \in IneligibleVisits : tlog[i].path = <<name_d_txt>>
    /\ ReturnedIds(<<name_b_py>>) # {}

\* ------------------------------------------------- the ends of the upsert
\* C18: no call of the upsert ends at the `return None` that follows the
\* retry loop (line 273): every call returns from inside the loop.
C18_FinalReturnUnreachable == uexit # 273

\* The create/update requests and the title lookups of the call.
WriteRequests == {i \in DOMAIN ulog : IsWrite(ulog[i])}

Lookups == {i \in DOMAIN ulog : ulog[i].op = "GET"}

\* The call issued at most max_retries create/update requests and at most
\* one lookup more than it got 409 answers; it began with a lookup, and every
\* later lookup follows a 409 at once.
BoundedRequests ==
    /\ Cardinality(WriteRequests) <= max_retries
    /\ Cardinality(Lookups) <= 1 + Cardinality(Conflicts)
    /\ Cardinality(Lookups) <= 1 + max_retries
    /\ Len(ulog) > 0 => ulog[1].op = "GET"
    /\ \A i \in Lookups : i > 1 => ulog[i - 1].op \in {"PUT", "POST"} /\ ulog[i - 1].resp = "conflict"

\* C19: every upsert call ends by returning, an id after its request
\* succeeded or None after it failed, having issued at most 3 create/update
\* requests and at most 4 title lookups (the first, and one after each 409),
\* the lookups and requests in the order of the state machine.
C19_EndsInSuccessOrFailure ==
    /\ BoundedRequests
    /\ upc \in {"idle", "find", "request", "refetch", "returned"}
    /\ upc = "returned" /\ creds =>
         uret # None <=> (ulog[Len(ulog)].op \in {"PUT", "POST"} /\ ulog[Len(ulog)].resp = "ok")

\* ------------------------------------------------------------ the backoff
RECURSIVE Pow2(_)
Pow2(k) == IF k = 0 THEN 1 ELSE 2 * Pow2(k - 1)

\* The sleeps of the upsert call and of the summarizer call.
USleeps == {i \in DOMAIN ulog : ulog[i].op = "SLEEP"}

SSleeps == {i \in DOMAIN slog : slog[i].op = "SLEEP"}

\* The re-fetches before place i of the upsert's log that found no page: the
\* attempts that were retried at once.
ImmediateRetriesBefore(i) ==
    Cardinality({j \in Refetches : j < i /\ ulog[j].resp = "not_found"})

USleepsBefore(i) == Cardinality({j \in USleeps : j < i})

\* C20, as stated: in both retry loops the sleep after the failed attempt of
\* index k lasts 5 * 2^k seconds.
C20_DelayByAttemptIndex ==
    /\ \A i \in SSleeps : slog[i].secs = initial_retry_delay * Pow2(slog[i].att)
    /\ \A i \in USleeps : ulog[i].secs = initial_retry_delay * Pow2(ulog[i].att)

\* C20, amended: in the summarizer the sleep after the failed attempt of
\* index k lasts 5 * 2^k seconds; in the upsert it lasts 5 * 2^j seconds, j
\* the number of sleeps the call took before, which is k less the number of
\* earlier attempts retried at once after a 409 whose re-fetch found no page.
C20_DelayBySleepCount ==
    /\ \A i \in SSleeps : slog[i].secs = initial_retry_delay * Pow2(slog[i].att)
    /\ \A i \in USleeps :
         /\ ulog[i].secs = initial_retry_delay * Pow2(USleepsBefore(i))
         /\ USleepsBefore(i) = ulog[i].att - ImmediateRetriesBefore(i)

\* The upsert slept 5 seconds after its second attempt, the first having
\* been retried at once, and a summarizer call slept 10 seconds after its
\* second attempt.
C20_Witness ==
    /\ \E i \in USleeps :
         ulog[i].att = 1 /\ ulog[i].secs = initial_retry_delay /\ ImmediateRetriesBefore(i) = 1
    /\ \E i \in SSleeps : slog[i].att = 1 /\ slog[i].secs = 2 * initial_retry_delay

\* Every sleep of the upsert call came after an attempt that was not the
\* last, and the call went on to its next request.
USleepsBeforeRequests ==
    \A i \in USleeps :
        /\ ulog[i].att < max_retries - 1
        /\ i < Len(ulog) => IsWrite(ulog[i + 1])
        /\ i = Len(ulog) => upc = "request"

\* The same of the summarizer call.
SSleepsBeforeRequests ==
    \A i \in SSleeps :
        /\ slog[i].att < max_retries - 1
        /\ i < Len(slog) => slog[i + 1].op = "API"
        /\ i = Len(slog) => spc = "call"

\* C21: in neither retry loop is a sleep taken after the last attempt: every
\* sleep follows an attempt of index below max_retries - 1 and is followed by
\* the next request of the call, never by the call's return.
C21_NoSleepAfterLastAttempt == USleepsBeforeRequests /\ SSleepsBeforeRequests

\* -------------------------------------------------------- the request body
\* The create requests of the call.
Creates == {i \in DOMAIN ulog : ulog[i].op = "POST"}

\* C22: the body of every create request (POST) holds no page id and no
\* version number, also when an update attempt of the same call was answered
\* 409 before and the re-fetch found no page.
C22_CreateCarriesNoIdOrVersion ==
    \A i \in Creates : ulog[i].id = None /\ ulog[i].ver = None
====
